---- MODULE Spec2Model ----
(***************************************************************************)
(* Verification model of the QKD simulation server (src/app.py): the four  *)
(* protocol engines (BB84, E91, BBM92, teleportation), the circuits they   *)
(* hand to the qasm simulator, and calculate_security_metrics.             *)
(*                                                                         *)
(* A circuit is a state vector with exact (unnormalised) Gaussian-integer  *)
(* amplitudes; a one-shot run of the simulator is a nondeterministic       *)
(* choice among the basis states of nonzero amplitude.  A Python float is  *)
(* the binary expansion of an IEEE-754 double.                             *)
(***************************************************************************)
EXTENDS Integers, Sequences, FiniteSets, TLC

\* ------------------------------------------------------------------ bounds
\* Largest key_length a request asks for.
MaxKeyLen == 2
\* Longest custom_bits string a request carries.
MaxCustomLen == 2
\* The round counter saturates here.
MaxRounds == 3
\* Longest custom_bits string a request to an endpoint carries.
MaxApiCustomLen == 1
\* Longest key of the exhaustive key pairs handed to the evaluator alone.
MaxEvalLen == 2
\* Longest key of the graded key pairs (k leading mismatches out of n).
MaxGradedLen == 20

\* Significand width of a Python float (IEEE-754 binary64).
Mant == 53

\* ------------------------------------------------------- small arithmetic
RECURSIVE Pow2(_)
Pow2(n) == IF n = 0 THEN 1 ELSE 2 * Pow2(n - 1)

Min(a, b) == IF a < b THEN a ELSE b

Max(a, b) == IF a < b THEN b ELSE a

\* ------------------------------------------------------ quantum circuits
\* Bit q of basis-state index k (qubit 0 is the least significant bit).
BitOf(k, q) == (k \div Pow2(q)) % 2

Flip(k, q) == IF BitOf(k, q) = 1 THEN k - Pow2(q) ELSE k + Pow2(q)

CAdd(a, b) == <<a[1] + b[1], a[2] + b[2]>>

CSub(a, b) == <<a[1] - b[1], a[2] - b[2]>>

\* QuantumCircuit(n, n): n qubits in |0...0>.
QuantumCircuit(n) == [k \in 0..(Pow2(n) - 1) |-> IF k = 0 THEN <<1, 0>> ELSE <<0, 0>>]

\* qc.x(q)
GateX(qc, q) == [k \in DOMAIN qc |-> qc[Flip(k, q)]]

\* qc.h(q), without the 1/sqrt(2) factor
GateH(qc, q) ==
    [k \in DOMAIN qc |->
        IF BitOf(k, q) = 0 THEN CAdd(qc[k], qc[Flip(k, q)])
                           ELSE CSub(qc[Flip(k, q)], qc[k])]

\* qc.sdg(q): |1> picks up the phase -i
GateSdg(qc, q) ==
    [k \in DOMAIN qc |->
        IF BitOf(k, q) = 1 THEN <<qc[k][2], 0 - qc[k][1]>> ELSE qc[k]]

\* qc.z(q)
GateZ(qc, q) ==
    [k \in DOMAIN qc |->
        IF BitOf(k, q) = 1 THEN <<0 - qc[k][1], 0 - qc[k][2]>> ELSE qc[k]]

\* qc.cx(c, t)
GateCX(qc, c, t) ==
    [k \in DOMAIN qc |-> IF BitOf(k, c) = 1 THEN qc[Flip(k, t)] ELSE qc[k]]

\* backend.run(qc, shots=1, memory=True) with every qubit measured: the
\* basis states the single shot can yield.
Run(qc) == {k \in DOMAIN qc : qc[k] # <<0, 0>>}

\* A classical bit as the character of the memory string.
Chr(b) == IF b = 1 THEN "1" ELSE "0"

\* get_memory()[0] of a (1, 1) circuit after measure(0, 0).
Memory1(k) == <<Chr(BitOf(k, 0))>>

\* get_memory()[0] of a (2, 2) circuit after measure(0, 0); measure(1, 1):
\* classical bit 1 is the leftmost character.
Memory2(k) == <<Chr(BitOf(k, 1)), Chr(BitOf(k, 0))>>

\* get_memory()[0] of a (2, 2) circuit after measure_all(): the added
\* register "meas" comes first, then a space, then the untouched c register.
MemoryAll2(k) == <<Chr(BitOf(k, 1)), Chr(BitOf(k, 0)), " ", "0", "0">>

\* get_memory()[0] of a (3, 3) circuit after measure(0, 0); measure(1, 1):
\* classical bit 2 is never written.
Memory3(k) == <<"0", Chr(BitOf(k, 1)), Chr(BitOf(k, 0))>>

\* int(s) of a one-character string of the memory
IntOfChr(c) == IF c = "1" THEN 1 ELSE 0

\* ------------------------------------------------------------ Python floats
\* A float in [0, 2) is <<b0, b1, ..., bL>> = b0 + sum b_i 2^-i, without
\* trailing zeros after b0.  Strip drops them.
Strip(bits) ==
    LET keep == {j \in 1..Len(bits) : j = 1 \/ bits[j] = 1}
        n    == CHOOSE j \in keep : \A y \in keep : y <= j
    IN  SubSeq(bits, 1, n)

Zeros(n) == [j \in 1..n |-> 0]

Pad(bits, n) == IF Len(bits) < n THEN bits \o Zeros(n - Len(bits)) ELSE bits

\* bits + 2^-(Len(bits) - 1) for bits that hold a 0: the last 0 becomes 1
\* and the 1s after it become 0.
Inc(bits) ==
    LET zs == {j \in 1..Len(bits) : bits[j] = 0}
        p  == CHOOSE j \in zs : \A y \in zs : y <= j
    IN  [j \in 1..Len(bits) |-> IF j < p THEN bits[j] ELSE IF j = p THEN 1 ELSE 0]

\* Index of the first 1 of bits (Len(bits) + 1 when there is none).
FirstOne(bits) ==
    LET os == {j \in 1..Len(bits) : bits[j] = 1}
    IN  IF os = {} THEN Len(bits) + 1 ELSE CHOOSE j \in os : \A y \in os : j <= y

\* Round-to-nearest-even of an exact expansion to Mant significant bits;
\* sticky says that nonzero digits follow the expansion given.
RoundNearestEven(bits, sticky) ==
    LET p    == FirstOne(bits)
        last == p + Mant - 1
    IN  IF Len(bits) <= last THEN Strip(bits)
        ELSE LET kept  == SubSeq(bits, 1, last)
                 rb    == bits[last + 1]
                 rest  == sticky \/ (\E j \in (last + 2)..Len(bits) : bits[j] = 1)
                 up    == rb = 1 /\ (rest \/ kept[last] = 1)
             IN  Strip(IF up THEN Inc(kept) ELSE kept)

\* 2^n mod t
RECURSIVE PowMod2(_, _)
PowMod2(n, t) ==
    IF n = 0 THEN 1 % t
    ELSE LET half == PowMod2(n \div 2, t)
             sq   == (half * half) % t
         IN  IF n % 2 = 0 THEN sq ELSE (2 * sq) % t

\* What is left of r after n binary digits of r / t (r < t).
DivRem(r, t, n) == (r * PowMod2(n, t)) % t

\* The first n binary digits of r / t after the point (r < t).
DivBits(r, t, n) ==
    [j \in 1..n |-> IF 2 * DivRem(r, t, j - 1) >= t THEN 1 ELSE 0]

\* Number of zero digits of r / t right after the point (0 < r < t).
RECURSIVE LeadingZeros(_, _)
LeadingZeros(r, t) == IF 2 * r >= t THEN 0 ELSE 1 + LeadingZeros(2 * r, t)

\* Python's m / t on ints, 0 <= m <= t, t > 0: the double nearest m/t.
FloatDiv(m, t) ==
    IF m = 0 THEN <<0>>
    ELSE IF m = t THEN <<1>>
    ELSE LET n == LeadingZeros(m, t) + Mant + 1
         IN  RoundNearestEven(<<0>> \o DivBits(m, t, n), DivRem(m, t, n) # 0)

\* a < b read as binary numerals of one length, from digit j on.
LessFrom(a, b, j) ==
    \E p \in j..Len(a) : a[p] < b[p] /\ \A y \in j..(p - 1) : a[y] = b[y]

\* a - b digit by digit, a >= b, equal lengths: digit j borrows when the
\* digits after it hold less in a than in b.
SubBorrow(a, b) ==
    [j \in 1..Len(a) |->
        (a[j] - b[j] - (IF LessFrom(a, b, j + 1) THEN 1 ELSE 0)) % 2]

\* Python's a - b on floats with a >= b.
FloatSub(a, b) ==
    LET n == Max(Len(a), Len(b))
    IN  RoundNearestEven(SubBorrow(Pad(a, n), Pad(b, n)), FALSE)

\* Python's a < b on floats.
FloatLess(a, b) ==
    LET n == Max(Len(a), Len(b)) IN LessFrom(Pad(a, n), Pad(b, n), 1)

\* The literals 0.0, 1.0, 0.05 and 0.15: the doubles nearest the decimals.
Float0 == <<0>>

Float1 == <<1>>

Float005 == FloatDiv(5, 100)

Float015 == FloatDiv(15, 100)

\* ------------------------------------------------------------ Python lists
\* lst[j] with a 0-based, non-negative j
At(lst, j) == lst[j + 1]

\* lst[:n]; a negative n counts from the end
PySliceTo(lst, n) ==
    IF n >= 0 THEN SubSeq(lst, 1, Min(n, Len(lst)))
              ELSE SubSeq(lst, 1, Max(Len(lst) + n, 0))

\* zip(a, b): as long as the shorter one
Zip(a, b) == [j \in 1..Min(Len(a), Len(b)) |-> <<a[j], b[j]>>]

RECURSIVE SeqsUpTo(_, _)
SeqsUpTo(S, n) ==
    IF n = 0 THEN {<<>>}
    ELSE LET shorter == SeqsUpTo(S, n - 1)
         IN  shorter \cup {Append(q, c) : q \in shorter, c \in S}

\* ------------------------------------------------------------------ state
\* The characters a custom_bits string is made of here: the two bits, a
\* digit that is no bit, and a character that is no digit.
Chars == {"0", "1", "2", "a"}

Protocols == {"bb84", "e91", "bbm92", "teleportation"}

\* key_length = int(...) of the request: any integer, none rejected.
KeyLengths == (0 - 1)..MaxKeyLen

\* None, for a field of the last round that the round did not set.
None == 0 - 1

VARIABLES
    protocol,               \* key of the engine in the protocols registry
    key_length,             \* generate_key's arguments
    include_eavesdropping,
    custom_bits,            \* <<>> is both None and ''
    pc,                     \* "call", "loop", "returned", "raised", "done"
    alice_key,
    bob_key,
    bit_index,
    i,                      \* loop variable of the teleportation engine
    rounds,                 \* loop bodies run so far (saturating)
    round,                  \* the last loop body: see LastRound
    error,                  \* message of the exception raised, "" if none
    metrics,                \* result of calculate_security_metrics
    request,                \* the JSON body of the request and its endpoint
    results,                \* compare_protocols: the entries filled in so far
    response,               \* what the endpoint returned: see NoResponse
    expected_qber           \* mean qber of the engine over many trials

vars == <<protocol, key_length, include_eavesdropping, custom_bits, pc,
          alice_key, bob_key, bit_index, i, rounds, round, error, metrics,
          request, results, response, expected_qber>>

\* What is outside generate_key and the evaluator.
outside == <<request, results, response, expected_qber>>

args == <<protocol, key_length, include_eavesdropping, custom_bits>>

NoRound ==
    [alice_bit |-> None, bob_bit |-> None, alice_basis |-> None,
     bob_basis |-> None, intercepted |-> FALSE, eve_basis |-> None,
     kept |-> FALSE]

\* Variant: every round kept, whatever the bases.
SiftedAlways(alice_basis, bob_basis) == TRUE

\* Variant: no round kept.
SiftedNever(alice_basis, bob_basis) == FALSE

\* if alice_basis == bob_basis
Sifted(alice_basis, bob_basis) == alice_basis = bob_basis

\* The last loop body of a sifting engine: the bases drawn and whether Eve
\* intercepted (her basis too, where she has one); the bits are those of a
\* kept round, a discarded round's bits are dropped with it.
LastRound(alice_bit, bob_bit, alice_basis, bob_basis, intercepted, eve_basis) ==
    LET kept == Sifted(alice_basis, bob_basis)
    IN  [alice_bit |-> IF kept THEN alice_bit ELSE None,
         bob_bit |-> IF kept THEN bob_bit ELSE None,
         alice_basis |-> alice_basis, bob_basis |-> bob_basis,
         intercepted |-> intercepted,
         eve_basis |-> IF kept THEN eve_basis ELSE None,
         kept |-> kept]

NoMetrics == [agreement_rate |-> Float0, qber |-> Float0,
              is_secure |-> FALSE, security_level |-> "none"]

\* No request: generate_key or the evaluator is called directly.
NoRequest ==
    [endpoint |-> "none", protocol_name |-> "", use_custom_bits |-> FALSE,
     custom_bits |-> <<>>]

\* An entry of compare_protocols' results that is not filled in yet.
NoEntry ==
    [kind |-> "none", error |-> "", name |-> "", security_level |-> "none",
     is_secure |-> FALSE, key_length |-> None]

NoResults == [p \in Protocols |-> NoEntry]

\* No response yet (code 0).  A response holds the HTTP status code, the
\* error message of an error body, and the fields of run_simulation's
\* results; the two rates formatted to three decimals are not kept.
NoResponse ==
    [code |-> 0, error |-> "", protocol |-> "", alice_key |-> <<>>,
     bob_key |-> <<>>, key_length |-> None, eavesdropping |-> FALSE,
     is_secure |-> FALSE, security_level |-> "none", status |-> ""]

\* No mean computed: a fraction with denominator 0.
NoOdds == <<0, 0>>

\* Variant: `if custom_bits is not None`, a string being passed.
CustomModeAnyString == TRUE

\* `if custom_bits:` -- None and the empty string are both false
CustomMode == custom_bits # <<>>

Init ==
    /\ protocol \in Protocols
    /\ key_length \in KeyLengths
    /\ include_eavesdropping \in BOOLEAN
    /\ custom_bits \in SeqsUpTo(Chars, MaxCustomLen)
    /\ pc = "call"
    /\ alice_key = <<>>
    /\ bob_key = <<>>
    /\ bit_index = 0
    /\ i = 0
    /\ rounds = 0
    /\ round = NoRound
    /\ error = ""
    /\ metrics = NoMetrics
    /\ request = NoRequest
    /\ results = NoResults
    /\ response = NoResponse
    /\ expected_qber = NoOdds

\* ------------------------------------------------- generate_key: prologue
\* int(bit) succeeds on a decimal digit
IsIntLiteral(c) == c \in {"0", "1", "2"}

IntOf(c) == IF c = "0" THEN 0 ELSE IF c = "1" THEN 1 ELSE 2

\* The values int(bit) takes on the characters above.
Digits == {IntOf(c) : c \in {c \in Chars : IsIntLiteral(c)}}

\* [int(bit) for bit in custom_bits], when no int() raises
CustomBitList(s) == [j \in 1..Len(s) |-> IntOf(s[j])]

\* Variant: the length check off by one (a list one short passes).
TooShortByOne(custom_bit_list, n) == Len(custom_bit_list) + 1 < n

\* len(custom_bit_list) < key_length
TooShort(custom_bit_list, n) == Len(custom_bit_list) < n

\* Variant: the slice forgotten, the whole list becomes Alice's key.
AliceKeyWhole(custom_bit_list, n) == custom_bit_list

\* custom_bit_list[:key_length]
AliceKeyOf(custom_bit_list, n) == PySliceTo(custom_bit_list, n)

\* The code before the loop, the same text in all four engines.
GenerateKeyBegin ==
    /\ pc = "call"
    /\ IF CustomMode
       THEN IF \E j \in 1..Len(custom_bits) : ~IsIntLiteral(custom_bits[j])
            THEN /\ pc' = "raised"
                 /\ error' = "invalid literal for int() with base 10"
                 /\ UNCHANGED alice_key
            ELSE IF TooShort(CustomBitList(custom_bits), key_length)
            THEN /\ pc' = "raised"
                 /\ error' = "Custom bits must be at least key_length bits long"
                 /\ UNCHANGED alice_key
            ELSE /\ pc' = "loop"
                 /\ alice_key' = AliceKeyOf(CustomBitList(custom_bits), key_length)
                 /\ UNCHANGED error
       ELSE /\ pc' = "loop"
            /\ alice_key' = <<>>
            /\ UNCHANGED error
    /\ bob_key' = <<>>
    /\ bit_index' = 0
    /\ i' = 0
    /\ UNCHANGED <<outside, args, rounds, round, metrics>>

\* One more loop body has run.
Counted == IF rounds < MaxRounds THEN rounds + 1 ELSE rounds

\* `include_eavesdropping and random.random() < p`: the draw happens only
\* with eavesdropping on.
Intercepts == IF include_eavesdropping THEN BOOLEAN ELSE {FALSE}

\* ------------------------------------------------------------------- BB84
\* Alice's qubit: X for bit 1, H for the diagonal basis.
BB84Prepare(alice_bit, alice_basis) ==
    LET qc0 == QuantumCircuit(1)
        qc1 == IF alice_bit = 1 THEN GateX(qc0, 0) ELSE qc0
    IN  IF alice_basis = 1 THEN GateH(qc1, 0) ELSE qc1

\* Eve's measurement in her basis, on Alice's circuit.
BB84EveMeasure(qc, eve_basis) == IF eve_basis = 1 THEN GateH(qc, 0) ELSE qc

\* Variant: Eve sends her result on in the rectilinear basis.
BB84ResendRectilinear(eve_result, eve_basis) ==
    IF eve_result = 1 THEN GateX(QuantumCircuit(1), 0) ELSE QuantumCircuit(1)

\* The qubit Eve sends on: a new circuit from her result and her basis.
BB84Resend(eve_result, eve_basis) ==
    LET qc0 == QuantumCircuit(1)
        qc1 == IF eve_result = 1 THEN GateX(qc0, 0) ELSE qc0
    IN  IF eve_basis = 1 THEN GateH(qc1, 0) ELSE qc1

\* Variant: Bob measures without rotating into his basis.
BB84BobMeasureNoBasis(qc, bob_basis) == qc

\* Bob's measurement in his basis.
BB84BobMeasure(qc, bob_basis) == IF bob_basis = 1 THEN GateH(qc, 0) ELSE qc

\* One transmission: the records [bob_result, eve_basis] that the draws
\* and the simulator's shots can produce.
BB84Transmit(alice_bit, alice_basis, bob_basis, intercepted) ==
    LET sent == BB84Prepare(alice_bit, alice_basis)
    IN  IF intercepted
        THEN UNION {
               UNION {
                 LET eve_result == IntOfChr(At(Memory1(ek), 0))
                     resent     == BB84Resend(eve_result, eve_basis)
                 IN  {[bob_result |-> IntOfChr(At(Memory1(bk), 0)),
                       eve_basis  |-> eve_basis] :
                         bk \in Run(BB84BobMeasure(resent, bob_basis))} :
                 ek \in Run(BB84EveMeasure(sent, eve_basis))} :
               eve_basis \in 0..1}
        ELSE {[bob_result |-> IntOfChr(At(Memory1(bk), 0)), eve_basis |-> None] :
                bk \in Run(BB84BobMeasure(sent, bob_basis))}

\* BB84Transmit, worked out once for every round there can be.
BB84Shots ==
    [alice_bit \in Digits, alice_basis \in 0..1, bob_basis \in 0..1, intercepted \in BOOLEAN |->
        BB84Transmit(alice_bit, alice_basis, bob_basis, intercepted)]

\* Variant: the loop conditions with <= for <.
SiftingContinuesInclusive ==
    IF CustomMode THEN Len(bob_key) <= key_length ELSE Len(alice_key) <= key_length

\* Variant: while True.
SiftingContinuesForever == TRUE

\* while len(bob_key) < key_length (custom bits) /
\* while len(alice_key) < key_length (random bits)
SiftingContinues ==
    IF CustomMode THEN Len(bob_key) < key_length ELSE Len(alice_key) < key_length

\* Loop body of the custom-bits branch.
BB84CustomRound ==
    /\ pc = "loop" /\ protocol = "bb84" /\ CustomMode
    /\ SiftingContinues
    /\ IF bit_index >= Len(alice_key)
       THEN /\ pc' = "raised"
            /\ error' = "list index out of range"
            /\ UNCHANGED <<alice_key, bob_key, bit_index, round>>
       ELSE \E alice_basis \in 0..1, bob_basis \in 0..1, intercepted \in Intercepts :
              LET alice_bit == At(alice_key, bit_index)
              IN  \E t \in BB84Shots[alice_bit, alice_basis, bob_basis, intercepted] :
                    /\ round' = LastRound(alice_bit, t.bob_result, alice_basis,
                                           bob_basis, intercepted, t.eve_basis)
                    /\ IF Sifted(alice_basis, bob_basis)
                       THEN /\ bob_key' = Append(bob_key, t.bob_result)
                            /\ bit_index' = bit_index + 1
                       ELSE UNCHANGED <<bob_key, bit_index>>
                    /\ UNCHANGED <<pc, error, alice_key>>
    /\ rounds' = Counted
    /\ UNCHANGED <<outside, args, i, metrics>>

\* Loop body of the random branch.
BB84RandomRound ==
    /\ pc = "loop" /\ protocol = "bb84" /\ ~CustomMode
    /\ SiftingContinues
    /\ \E alice_bit \in 0..1, alice_basis \in 0..1, bob_basis \in 0..1,
          intercepted \in Intercepts :
         \E t \in BB84Shots[alice_bit, alice_basis, bob_basis, intercepted] :
           /\ round' = LastRound(alice_bit, t.bob_result, alice_basis,
                                  bob_basis, intercepted, t.eve_basis)
           /\ IF Sifted(alice_basis, bob_basis)
              THEN /\ alice_key' = Append(alice_key, alice_bit)
                   /\ bob_key' = Append(bob_key, t.bob_result)
              ELSE UNCHANGED <<alice_key, bob_key>>
    /\ rounds' = Counted
    /\ UNCHANGED <<outside, args, pc, error, bit_index, i, metrics>>

\* -------------------------------------------------------------------- E91
\* The entangled pair, rotated into Alice's basis (qubit 0) and Bob's
\* basis (qubit 1): 0 none, 1 H, 2 Sdg then H.
E91Pair(alice_basis, bob_basis) ==
    LET qc0 == GateCX(GateH(QuantumCircuit(2), 0), 0, 1)
        qc1 == IF alice_basis = 1 THEN GateH(qc0, 0)
               ELSE IF alice_basis = 2 THEN GateH(GateSdg(qc0, 0), 0)
               ELSE qc0
    IN  IF bob_basis = 1 THEN GateH(qc1, 1)
        ELSE IF bob_basis = 2 THEN GateH(GateSdg(qc1, 1), 1)
        ELSE qc1

\* The pair Eve sends on: built from her two results, entangled again,
\* and with noisy one qubit q flipped.
E91Resend(eve_results, noisy, q) ==
    LET qc0 == QuantumCircuit(2)
        qc1 == IF At(eve_results, 1) = "1" THEN GateX(qc0, 0) ELSE qc0
        qc2 == IF At(eve_results, 0) = "1" THEN GateX(qc1, 1) ELSE qc1
        qc3 == GateCX(GateH(qc2, 0), 0, 1)
    IN  IF noisy THEN GateX(qc3, q) ELSE qc3

\* The memory strings `measurements` one round can end with.
E91Exchange(alice_basis, bob_basis, intercepted) ==
    LET pair == E91Pair(alice_basis, bob_basis)
    IN  IF intercepted
        THEN UNION {
               UNION {
                 {Memory2(k) : k \in Run(E91Resend(MemoryAll2(ek), nq[1], nq[2]))} :
                 nq \in {<<FALSE, 0>>, <<TRUE, 0>>, <<TRUE, 1>>}} :
               ek \in Run(pair)}
        ELSE {Memory2(k) : k \in Run(pair)}

\* E91Exchange, worked out once for every round there can be.
E91Shots ==
    [alice_basis \in 0..2, bob_basis \in 0..2, intercepted \in BOOLEAN |->
        E91Exchange(alice_basis, bob_basis, intercepted)]

\* Variant: the basis-2 flip left out.
E91BobBitNoFlip(measurements, alice_basis) == IntOfChr(At(measurements, 0))

\* Bob's bit of a kept round: flipped in basis 2.
E91BobBit(measurements, alice_basis) ==
    LET bob_bit == IntOfChr(At(measurements, 0))
    IN  IF alice_basis = 2 THEN 1 - bob_bit ELSE bob_bit

\* Loop body of the custom-bits branch.
E91CustomRound ==
    /\ pc = "loop" /\ protocol = "e91" /\ CustomMode
    /\ SiftingContinues
    /\ \E alice_basis \in 0..2, bob_basis \in 0..2, intercepted \in Intercepts :
         \E measurements \in E91Shots[alice_basis, bob_basis, intercepted] :
           LET bob_bit == E91BobBit(measurements, alice_basis)
           IN  /\ round' = LastRound(None, bob_bit, alice_basis, bob_basis,
                                      intercepted, None)
               /\ IF Sifted(alice_basis, bob_basis)
                  THEN /\ bob_key' = Append(bob_key, bob_bit)
                       /\ bit_index' = bit_index + 1
                  ELSE UNCHANGED <<bob_key, bit_index>>
    /\ rounds' = Counted
    /\ UNCHANGED <<outside, args, pc, error, alice_key, i, metrics>>

\* Loop body of the random branch.
E91RandomRound ==
    /\ pc = "loop" /\ protocol = "e91" /\ ~CustomMode
    /\ SiftingContinues
    /\ \E alice_basis \in 0..2, bob_basis \in 0..2, intercepted \in Intercepts :
         \E measurements \in E91Shots[alice_basis, bob_basis, intercepted] :
           LET alice_bit == IntOfChr(At(measurements, 1))
               bob_bit   == E91BobBit(measurements, alice_basis)
               kept      == Sifted(alice_basis, bob_basis)
           IN  /\ round' = LastRound(alice_bit, bob_bit, alice_basis, bob_basis,
                                      intercepted, None)
               /\ IF kept
                  THEN /\ alice_key' = Append(alice_key, alice_bit)
                       /\ bob_key' = Append(bob_key, bob_bit)
                  ELSE UNCHANGED <<alice_key, bob_key>>
    /\ rounds' = Counted
    /\ UNCHANGED <<outside, args, pc, error, bit_index, i, metrics>>

\* ------------------------------------------------------------------ BBM92
Bases92 == {"rectilinear", "diagonal"}

\* A basis as the last round records it: its place in the list
\* ['rectilinear', 'diagonal'].
Index92(basis) == IF basis = "rectilinear" THEN 0 ELSE 1

\* Variant: the pair without the CX that entangles it.
BBM92PairNoCX(alice_basis, bob_basis) ==
    LET qc0 == GateH(QuantumCircuit(2), 0)
        qc1 == IF alice_basis = "diagonal" THEN GateH(qc0, 0) ELSE qc0
    IN  IF bob_basis = "diagonal" THEN GateH(qc1, 1) ELSE qc1

\* The entangled pair, each half rotated by H in the diagonal basis.
BBM92Pair(alice_basis, bob_basis) ==
    LET qc0 == GateCX(GateH(QuantumCircuit(2), 0), 0, 1)
        qc1 == IF alice_basis = "diagonal" THEN GateH(qc0, 0) ELSE qc0
    IN  IF bob_basis = "diagonal" THEN GateH(qc1, 1) ELSE qc1

\* The pair Eve sends on: her two results, rotated into the two bases.
BBM92Resend(eve_results, alice_basis, bob_basis) ==
    LET qc0 == QuantumCircuit(2)
        qc1 == IF At(eve_results, 1) = "1" THEN GateX(qc0, 0) ELSE qc0
        qc2 == IF At(eve_results, 0) = "1" THEN GateX(qc1, 1) ELSE qc1
        qc3 == IF alice_basis = "diagonal" THEN GateH(qc2, 0) ELSE qc2
    IN  IF bob_basis = "diagonal" THEN GateH(qc3, 1) ELSE qc3

\* The memory strings `measurements` one round can end with.
BBM92Exchange(alice_basis, bob_basis, intercepted) ==
    LET pair == BBM92Pair(alice_basis, bob_basis)
    IN  IF intercepted
        THEN UNION {
               {Memory2(k) :
                  k \in Run(BBM92Resend(MemoryAll2(ek), alice_basis, bob_basis))} :
               ek \in Run(pair)}
        ELSE {Memory2(k) : k \in Run(pair)}

\* BBM92Exchange, worked out once for every round there can be.
BBM92Shots ==
    [alice_basis \in Bases92, bob_basis \in Bases92, intercepted \in BOOLEAN |->
        BBM92Exchange(alice_basis, bob_basis, intercepted)]

\* Loop body of the custom-bits branch.
BBM92CustomRound ==
    /\ pc = "loop" /\ protocol = "bbm92" /\ CustomMode
    /\ SiftingContinues
    /\ \E alice_basis \in Bases92, bob_basis \in Bases92, intercepted \in Intercepts :
         \E measurements \in BBM92Shots[alice_basis, bob_basis, intercepted] :
           LET bob_bit == IntOfChr(At(measurements, 0))
               kept    == Sifted(alice_basis, bob_basis)
           IN  /\ round' = LastRound(None, bob_bit, Index92(alice_basis),
                                      Index92(bob_basis), intercepted, None)
               /\ IF kept
                  THEN /\ bob_key' = Append(bob_key, bob_bit)
                       /\ bit_index' = bit_index + 1
                  ELSE UNCHANGED <<bob_key, bit_index>>
    /\ rounds' = Counted
    /\ UNCHANGED <<outside, args, pc, error, alice_key, i, metrics>>

\* Loop body of the random branch.
BBM92RandomRound ==
    /\ pc = "loop" /\ protocol = "bbm92" /\ ~CustomMode
    /\ SiftingContinues
    /\ \E alice_basis \in Bases92, bob_basis \in Bases92, intercepted \in Intercepts :
         \E measurements \in BBM92Shots[alice_basis, bob_basis, intercepted] :
           LET alice_bit == IntOfChr(At(measurements, 1))
               bob_bit   == IntOfChr(At(measurements, 0))
               kept      == Sifted(alice_basis, bob_basis)
           IN  /\ round' = LastRound(alice_bit, bob_bit, Index92(alice_basis),
                                      Index92(bob_basis), intercepted, None)
               /\ IF kept
                  THEN /\ alice_key' = Append(alice_key, alice_bit)
                       /\ bob_key' = Append(bob_key, bob_bit)
                  ELSE UNCHANGED <<alice_key, bob_key>>
    /\ rounds' = Counted
    /\ UNCHANGED <<outside, args, pc, error, bit_index, i, metrics>>

\* ---------------------------------------------------------- teleportation
\* Alice's three-qubit circuit: the secret on qubit 0, the Bell pair on
\* qubits 1 and 2, her Bell measurement, and Eve's X on qubit `tamper`.
TeleportCircuit(secret_bit, tamper) ==
    LET qc0 == QuantumCircuit(3)
        qc1 == IF secret_bit = 1 THEN GateX(qc0, 0) ELSE qc0
        qc2 == GateCX(GateH(qc1, 1), 1, 2)
        qc3 == GateH(GateCX(qc2, 0, 1), 0)
    IN  IF tamper # None THEN GateX(qc3, tamper) ELSE qc3

\* Bob's circuit: one fresh qubit, corrected from Alice's memory string.
TeleportBobCircuit(alice_measurements) ==
    LET bob_qc0 == QuantumCircuit(1)
        bob_qc1 == IF At(alice_measurements, 1) = "1" THEN GateX(bob_qc0, 0) ELSE bob_qc0
    IN  IF At(alice_measurements, 0) = "1" THEN GateZ(bob_qc1, 0) ELSE bob_qc1

\* Eve's X gate: tried with eavesdropping on (first draw), applied on the
\* second draw, to a qubit drawn from 0..2.  None when not applied.
Tampers == IF include_eavesdropping THEN {None, 0, 1, 2} ELSE {None}

\* The bits bob_bit one round can end with.
TeleportBobBits(secret_bit, tamper) ==
    UNION {
      {IntOfChr(At(Memory1(bk), 0)) : bk \in Run(TeleportBobCircuit(Memory3(ak)))} :
      ak \in Run(TeleportCircuit(secret_bit, tamper))}

\* TeleportBobBits, worked out once for every round there can be.
TeleportShots ==
    [secret_bit \in Digits, tamper \in {None, 0, 1, 2} |->
        TeleportBobBits(secret_bit, tamper)]

\* Variant: the range one too long.
InRangeInclusive(j, n) == j <= n

\* for i in range(n): the loop goes on while i < n
InRange(j, n) == j < n

\* Loop body of the custom-bits branch: for i in range(key_length).
TeleportCustomRound ==
    /\ pc = "loop" /\ protocol = "teleportation" /\ CustomMode
    /\ InRange(i, key_length)
    /\ IF i >= Len(alice_key)
       THEN /\ pc' = "raised"
            /\ error' = "list index out of range"
            /\ UNCHANGED <<bob_key, round>>
       ELSE \E tamper \in Tampers :
              LET secret_bit == At(alice_key, i)
              IN  \E bob_bit \in TeleportShots[secret_bit, tamper] :
                    /\ round' = [alice_bit |-> secret_bit, bob_bit |-> bob_bit,
                                 alice_basis |-> None, bob_basis |-> None,
                                 intercepted |-> tamper # None, eve_basis |-> None,
                                 kept |-> TRUE]
                    /\ bob_key' = Append(bob_key, bob_bit)
                    /\ UNCHANGED <<pc, error>>
    /\ i' = i + 1
    /\ rounds' = Counted
    /\ UNCHANGED <<outside, args, alice_key, bit_index, metrics>>

\* Loop body of the random branch: for i in range(key_length).
TeleportRandomRound ==
    /\ pc = "loop" /\ protocol = "teleportation" /\ ~CustomMode
    /\ InRange(i, key_length)
    /\ \E secret_bit \in 0..1, tamper \in Tampers :
         \E bob_bit \in TeleportShots[secret_bit, tamper] :
           /\ round' = [alice_bit |-> secret_bit, bob_bit |-> bob_bit,
                        alice_basis |-> None, bob_basis |-> None,
                        intercepted |-> tamper # None, eve_basis |-> None,
                        kept |-> TRUE]
           /\ alice_key' = Append(alice_key, secret_bit)
           /\ bob_key' = Append(bob_key, bob_bit)
    /\ i' = i + 1
    /\ rounds' = Counted
    /\ UNCHANGED <<outside, args, pc, error, bit_index, metrics>>

\* ----------------------------------------------------- generate_key: return
\* The loop condition is false: return {'alice_key': ..., 'bob_key': ...}.
GenerateKeyReturn ==
    /\ pc = "loop"
    /\ IF protocol = "teleportation" THEN ~InRange(i, key_length) ELSE ~SiftingContinues
    /\ pc' = "returned"
    /\ UNCHANGED <<outside, args, alice_key, bob_key, bit_index, i, rounds, round, error, metrics>>

\* ------------------------------------------------ calculate_security_metrics
\* Variant: the length of Alice's key taken for the compared length.
TotalOfAlice(a, b) == Len(a)

\* total = min(len(alice_key), len(bob_key))
Total(a, b) == Min(Len(a), Len(b))

\* matches = sum(1 for i, j in zip(alice_key[:total], bob_key[:total]) if i == j)
Matches(a, b) ==
    LET pairs == Zip(PySliceTo(a, Total(a, b)), PySliceTo(b, Total(a, b)))
    IN  Cardinality({j \in DOMAIN pairs : pairs[j][1] = pairs[j][2]})

\* Variant: is_secure asks for the threshold of 'High'.
IsSecureStrict(qber) == FloatLess(qber, Float005)

\* is_secure = qber < 0.15
IsSecure(qber) == FloatLess(qber, Float015)

\* Variant: the two thresholds tested in the wrong order.
SecurityLevelSwapped(qber) ==
    IF FloatLess(qber, Float015) THEN "Medium"
    ELSE IF FloatLess(qber, Float005) THEN "High"
    ELSE "Low"

\* 'High' if qber < 0.05 else 'Medium' if qber < 0.15 else 'Low'
SecurityLevel(qber) ==
    IF FloatLess(qber, Float005) THEN "High"
    ELSE IF FloatLess(qber, Float015) THEN "Medium"
    ELSE "Low"

\* Variant: the guard asks for both keys to be empty.
NoKeyBoth(a, b) == a = <<>> /\ b = <<>>

\* if not alice_key or not bob_key
NoKey(a, b) == a = <<>> \/ b = <<>>

\* matches / total raises ZeroDivisionError when total is 0.
DividesByZero(a, b) == ~NoKey(a, b) /\ Total(a, b) = 0

calculate_security_metrics(a, b) ==
    IF NoKey(a, b)
    THEN [agreement_rate |-> Float0, qber |-> Float1,
          is_secure |-> FALSE, security_level |-> "Low"]
    ELSE LET agreement_rate == FloatDiv(Matches(a, b), Total(a, b))
             qber           == FloatSub(Float1, agreement_rate)
         IN  [agreement_rate |-> agreement_rate, qber |-> qber,
              is_secure |-> IsSecure(qber), security_level |-> SecurityLevel(qber)]

\* The caller hands the returned keys to the evaluator.
CalculateMetrics ==
    /\ pc = "returned"
    /\ IF DividesByZero(alice_key, bob_key)
       THEN /\ pc' = "raised"
            /\ error' = "division by zero"
            /\ UNCHANGED metrics
       ELSE /\ metrics' = calculate_security_metrics(alice_key, bob_key)
            /\ pc' = "done"
            /\ UNCHANGED error
    /\ UNCHANGED <<outside, args, alice_key, bob_key, bit_index, i, rounds, round>>

\* ---------------------------------------------------------- specifications
Next ==
    \/ GenerateKeyBegin
    \/ BB84CustomRound
    \/ BB84RandomRound
    \/ E91CustomRound
    \/ E91RandomRound
    \/ BBM92CustomRound
    \/ BBM92RandomRound
    \/ TeleportCustomRound
    \/ TeleportRandomRound
    \/ GenerateKeyReturn
    \/ CalculateMetrics

\* One call of generate_key, then the evaluation of what it returned.
Spec == Init /\ [][Next]_vars

Bit == {0, 1}

Ones(n) == [j \in 1..n |-> 1]

\* The evaluator alone, on key pairs of any two lengths.
InitEval ==
    /\ protocol = "bb84"
    /\ key_length = 0
    /\ include_eavesdropping = FALSE
    /\ custom_bits = <<>>
    /\ pc = "returned"
    /\ \/ /\ alice_key \in SeqsUpTo(Bit, MaxEvalLen)
          /\ bob_key \in SeqsUpTo(Bit, MaxEvalLen)
       \/ \E n \in 1..MaxGradedLen, k \in 0..MaxGradedLen :
            /\ k <= n
            /\ alice_key = Zeros(n)
            /\ bob_key = Ones(k) \o Zeros(n - k)
    /\ bit_index = 0
    /\ i = 0
    /\ rounds = 0
    /\ round = NoRound
    /\ error = ""
    /\ metrics = NoMetrics
    /\ request = NoRequest
    /\ results = NoResults
    /\ response = NoResponse
    /\ expected_qber = NoOdds

NextEval == CalculateMetrics

SpecEval == InitEval /\ [][NextEval]_vars

\* ------------------------------------------------------------ the endpoints
Endpoints == {"run_simulation", "compare_protocols"}

\* data.get('protocol', 'bb84'): the registered names and one that is not.
ProtocolNames == Protocols \cup {"b92"}

\* protocols.items(): the registry in insertion order
ProtocolOrder == <<"bb84", "e91", "bbm92", "teleportation">>

IndexOf(p) == CHOOSE k \in 1..Len(ProtocolOrder) : ProtocolOrder[k] = p

\* proto.name
NameOf(p) ==
    IF p = "bb84" THEN "BB84"
    ELSE IF p = "e91" THEN "E91"
    ELSE IF p = "bbm92" THEN "BBM92"
    ELSE "Teleportation QKD"

\* Variant: any name taken for a registered one.
RegisteredAny(name) == TRUE

\* protocol_name in protocols
Registered(name) == name \in Protocols

\* all(bit in '01' for bit in custom_bits)
OnlyBits(s) == \A j \in 1..Len(s) : s[j] \in {"0", "1"}

\* use_custom_bits and custom_bits
WantsCustom == request.use_custom_bits /\ request.custom_bits # <<>>

\* jsonify({'error': message}), code
ErrorResponse(code, message) == [NoResponse EXCEPT !.code = code, !.error = message]

\* 'Secure communication possible' if metrics['is_secure'] else ...
StatusOf(is_secure) ==
    IF is_secure THEN "Secure communication possible"
    ELSE "Security compromised - abort key exchange"

\* A request to one of the two endpoints.  compare_protocols reads no
\* protocol name; with use_custom_bits false the string is not looked at,
\* so two strings stand for all.
InitApi ==
    /\ request \in [endpoint : Endpoints, protocol_name : ProtocolNames \cup {""},
                    use_custom_bits : BOOLEAN,
                    custom_bits : SeqsUpTo(Chars, MaxApiCustomLen)]
    /\ (request.endpoint = "compare_protocols") = (request.protocol_name = "")
    /\ ~request.use_custom_bits => request.custom_bits \in {<<>>, <<"1">>}
    /\ key_length \in KeyLengths
    /\ include_eavesdropping \in BOOLEAN
    /\ protocol = ""
    /\ custom_bits = <<>>
    /\ pc = "request"
    /\ alice_key = <<>>
    /\ bob_key = <<>>
    /\ bit_index = 0
    /\ i = 0
    /\ rounds = 0
    /\ round = NoRound
    /\ error = ""
    /\ metrics = NoMetrics
    /\ results = NoResults
    /\ response = NoResponse
    /\ expected_qber = NoOdds

\* run_simulation up to the call of generate_key.
RunSimulationBegin ==
    /\ pc = "request" /\ request.endpoint = "run_simulation"
    /\ IF ~Registered(request.protocol_name)
       THEN /\ response' = ErrorResponse(400, "Invalid protocol")
            /\ pc' = "responded"
            /\ UNCHANGED <<protocol, custom_bits>>
       ELSE IF WantsCustom /\ ~OnlyBits(request.custom_bits)
       THEN /\ response' = ErrorResponse(400, "Custom bits must contain only 0s and 1s")
            /\ pc' = "responded"
            /\ UNCHANGED <<protocol, custom_bits>>
       ELSE IF WantsCustom /\ Len(request.custom_bits) < key_length
       THEN /\ response' =
                 ErrorResponse(400, "Custom bits must be at least key_length characters long")
            /\ pc' = "responded"
            /\ UNCHANGED <<protocol, custom_bits>>
       ELSE /\ protocol' = request.protocol_name
            /\ custom_bits' = IF WantsCustom THEN request.custom_bits ELSE <<>>
            /\ pc' = "call"
            /\ UNCHANGED response
    /\ UNCHANGED <<key_length, include_eavesdropping, alice_key, bob_key, bit_index, i,
                   rounds, round, error, metrics, request, results, expected_qber>>

\* run_simulation after the evaluator, or in its except clause.
RunSimulationRespond ==
    /\ pc \in {"done", "raised"} /\ request.endpoint = "run_simulation"
    /\ response' =
         IF pc = "raised" THEN ErrorResponse(500, error)
         ELSE [code |-> 200, error |-> "", protocol |-> NameOf(protocol),
               alice_key |-> alice_key, bob_key |-> bob_key,
               key_length |-> Len(alice_key),
               eavesdropping |-> include_eavesdropping,
               is_secure |-> metrics.is_secure,
               security_level |-> metrics.security_level,
               status |-> StatusOf(metrics.is_secure)]
    /\ pc' = "responded"
    /\ UNCHANGED <<args, alice_key, bob_key, bit_index, i, rounds, round, error,
                   metrics, request, results, expected_qber>>

\* compare_protocols up to the first engine's generate_key.
CompareProtocolsBegin ==
    /\ pc = "request" /\ request.endpoint = "compare_protocols"
    /\ protocol' = ProtocolOrder[1]
    /\ custom_bits' = IF WantsCustom THEN request.custom_bits ELSE <<>>
    /\ pc' = "call"
    /\ UNCHANGED <<key_length, include_eavesdropping, alice_key, bob_key, bit_index, i,
                   rounds, round, error, metrics, outside>>

\* Variant: the except clause's entry written whatever the engine did.
EntryOfError == [NoEntry EXCEPT !.kind = "error", !.error = error]

\* results[protocol_name] of the engine that has just run.
EntryOf ==
    IF pc = "raised" THEN [NoEntry EXCEPT !.kind = "error", !.error = error]
    ELSE [kind |-> "metrics", error |-> "", name |-> NameOf(protocol),
          security_level |-> metrics.security_level,
          is_secure |-> metrics.is_secure, key_length |-> Len(alice_key)]

\* compare_protocols: the entry of the engine that has just run, then the
\* next engine's generate_key (the locals of the finished call are gone)
\* or, after the last one, the response.
CompareProtocolsNext ==
    /\ pc \in {"done", "raised"} /\ request.endpoint = "compare_protocols"
    /\ results' = [results EXCEPT ![protocol] = EntryOf]
    /\ IF IndexOf(protocol) = Len(ProtocolOrder)
       THEN /\ response' = [NoResponse EXCEPT !.code = 200]
            /\ pc' = "responded"
            /\ UNCHANGED <<protocol, alice_key, bob_key, bit_index, i, rounds, round,
                           error, metrics>>
       ELSE /\ protocol' = ProtocolOrder[IndexOf(protocol) + 1]
            /\ pc' = "call"
            /\ alice_key' = <<>>
            /\ bob_key' = <<>>
            /\ bit_index' = 0
            /\ i' = 0
            /\ rounds' = 0
            /\ round' = NoRound
            /\ error' = ""
            /\ metrics' = NoMetrics
            /\ UNCHANGED response
    /\ UNCHANGED <<key_length, include_eavesdropping, custom_bits, request,
                   expected_qber>>

NextApi ==
    \/ RunSimulationBegin
    \/ RunSimulationRespond
    \/ CompareProtocolsBegin
    \/ CompareProtocolsNext
    \/ Next

\* One request to run_simulation or to compare_protocols.
SpecApi == InitApi /\ [][NextApi]_vars

\* run_simulation from the return of generate_key on: the evaluator on the
\* returned keys, then the response.
InitVerdict ==
    /\ protocol \in Protocols
    /\ request = [endpoint |-> "run_simulation", protocol_name |-> protocol,
                  use_custom_bits |-> FALSE, custom_bits |-> <<>>]
    /\ include_eavesdropping \in BOOLEAN
    /\ custom_bits = <<>>
    /\ pc = "returned"
    /\ \/ /\ alice_key \in SeqsUpTo(Bit, MaxEvalLen)
          /\ bob_key \in SeqsUpTo(Bit, MaxEvalLen)
          /\ Len(alice_key) = Len(bob_key)
       \/ \E n \in 1..MaxGradedLen, k \in 0..MaxGradedLen :
            /\ k <= n
            /\ alice_key = Zeros(n)
            /\ bob_key = Ones(k) \o Zeros(n - k)
    /\ key_length = Len(alice_key)
    /\ bit_index = 0
    /\ i = Len(alice_key)
    /\ rounds = 0
    /\ round = NoRound
    /\ error = ""
    /\ metrics = NoMetrics
    /\ results = NoResults
    /\ response = NoResponse
    /\ expected_qber = NoOdds

NextVerdict == CalculateMetrics \/ RunSimulationRespond

SpecVerdict == InitVerdict /\ [][NextVerdict]_vars

\* --------------------------------------------------------------- fairness
\* A loop body of a sifting engine in which the two bases drawn are equal.
MatchingRound ==
    /\ \/ BB84CustomRound \/ BB84RandomRound
       \/ E91CustomRound \/ E91RandomRound
       \/ BBM92CustomRound \/ BBM92RandomRound
    /\ round'.alice_basis = round'.bob_basis

\* What generate_key goes on doing once called: its next statement, and
\* in a sifting loop a body whose draws give equal bases.
Progress ==
    \/ GenerateKeyBegin
    \/ MatchingRound
    \/ TeleportCustomRound
    \/ TeleportRandomRound
    \/ GenerateKeyReturn

\* A call whose custom_bits, if any, is a string of '0' and '1'.
InitFair == Init /\ OnlyBits(custom_bits)

\* One call as in Spec, with generate_key never stopping halfway and equal
\* bases drawn again and again.
SpecFair == InitFair /\ [][Next]_vars /\ WF_vars(Progress)

\* ------------------------------------------------------- odds of a round
\* A probability is a fraction <<numerator, denominator>> in lowest terms.
RECURSIVE GCD(_, _)
GCD(a, b) == IF b = 0 THEN a ELSE GCD(b, a % b)

Frac(n, d) == LET g == GCD(n, d) IN <<n \div g, d \div g>>

FAdd(p, q) == Frac(p[1] * q[2] + q[1] * p[2], p[2] * q[2])

FMul(p, q) == Frac(p[1] * q[1], p[2] * q[2])

FDiv(p, q) == Frac(p[1] * q[2], p[2] * q[1])

FLess(p, q) == p[1] * q[2] < q[1] * p[2]

\* The sum of the first n fractions of a sequence.
RECURSIVE FSumTo(_, _)
FSumTo(f, n) == IF n = 0 THEN <<0, 1>> ELSE FAdd(f[n], FSumTo(f, n - 1))

\* The sum of a sequence of fractions.
FSum(f) == FSumTo(f, Len(f))

\* p when yes, 1 - p when not: `random.random() < p`
Chance(p, yes) == IF yes THEN p ELSE <<p[2] - p[1], p[2]>>

\* The squared modulus of the amplitude of basis state k.
Weight(qc, k) == qc[k][1] * qc[k][1] + qc[k][2] * qc[k][2]

\* The squared norm of the basis states 0..k.
RECURSIVE WeightTo(_, _)
WeightTo(qc, k) == IF k < 0 THEN 0 ELSE Weight(qc, k) + WeightTo(qc, k - 1)

\* The simulator's single shot: basis state k with the probability of the
\* Born rule.
Shot(qc) ==
    LET norm == WeightTo(qc, Cardinality(DOMAIN qc) - 1)
    IN  [k \in DOMAIN qc |-> Frac(Weight(qc, k), norm)]

\* The probability that the shot of qc is one of those that hit[k] picks.
ShotOdds(qc, hit) ==
    LET shot == Shot(qc)
    IN  FSum([j \in 1..Cardinality(DOMAIN qc) |->
                IF hit[j - 1] THEN shot[j - 1] ELSE <<0, 1>>])

\* The mean of odds[k] over the shot k of qc.
ShotMean(qc, odds) ==
    LET shot == Shot(qc)
    IN  FSum([j \in 1..Cardinality(DOMAIN qc) |-> FMul(shot[j - 1], odds[j - 1])])

\* BB84: the probability that Bob's result is not alice_bit.
BB84Mismatch(alice_bit, alice_basis, bob_basis, intercepted) ==
    LET sent == BB84Prepare(alice_bit, alice_basis)
        Wrong(bk) == IntOfChr(At(Memory1(bk), 0)) # alice_bit
        Bob(qc) ==
            LET measured == BB84BobMeasure(qc, bob_basis)
            IN  ShotOdds(measured, [bk \in DOMAIN measured |-> Wrong(bk)])
        Eve(eve_basis) ==
            LET Resent(ek) == Bob(BB84Resend(IntOfChr(At(Memory1(ek), 0)), eve_basis))
                measured == BB84EveMeasure(sent, eve_basis)
            IN  ShotMean(measured, [ek \in DOMAIN measured |-> Resent(ek)])
    IN  IF intercepted
        THEN FSum([j \in 1..2 |-> FMul(<<1, 2>>, Eve(j - 1))])
        ELSE Bob(sent)

\* E91: the probability that Bob's bit of a kept round is not Alice's bit,
\* which is alice_bit with custom bits and the pair's other half without.
E91Mismatch(custom, alice_bit, alice_basis, bob_basis, intercepted) ==
    LET pair == E91Pair(alice_basis, bob_basis)
        Wrong(k) ==
            E91BobBit(Memory2(k), alice_basis) #
                (IF custom THEN alice_bit ELSE IntOfChr(At(Memory2(k), 1)))
        Bob(qc) == ShotOdds(qc, [k \in DOMAIN qc |-> Wrong(k)])
        Resent(ek) ==
            FAdd(FMul(Chance(<<1, 10>>, FALSE),
                      Bob(E91Resend(MemoryAll2(ek), FALSE, 0))),
                 FMul(Chance(<<1, 10>>, TRUE),
                      FSum([j \in 1..2 |->
                              FMul(<<1, 2>>,
                                   Bob(E91Resend(MemoryAll2(ek), TRUE, j - 1)))])))
    IN  IF intercepted THEN ShotMean(pair, [ek \in DOMAIN pair |-> Resent(ek)])
                       ELSE Bob(pair)

\* BBM92: the same.
BBM92Mismatch(custom, alice_bit, alice_basis, bob_basis, intercepted) ==
    LET pair == BBM92Pair(alice_basis, bob_basis)
        Wrong(k) ==
            IntOfChr(At(Memory2(k), 0)) #
                (IF custom THEN alice_bit ELSE IntOfChr(At(Memory2(k), 1)))
        Bob(qc) == ShotOdds(qc, [k \in DOMAIN qc |-> Wrong(k)])
        Resent(ek) == Bob(BBM92Resend(MemoryAll2(ek), alice_basis, bob_basis))
    IN  IF intercepted THEN ShotMean(pair, [ek \in DOMAIN pair |-> Resent(ek)])
                       ELSE Bob(pair)

\* The probability of a mismatch in a round, given that the round is
\* kept: both bases drawn evenly from the list bases, Eve intercepting
\* with probability p, mismatch the odds of the round drawn.
SiftedError(bases, p, mismatch) ==
    LET n == Len(bases)
        \* draw d of 2 n n: Alice's basis, Bob's basis, interception
        A(d) == bases[((d - 1) \div (2 * n)) + 1]
        B(d) == bases[(((d - 1) \div 2) % n) + 1]
        X(d) == (d - 1) % 2 = 1
        Draw(d) == FMul(<<1, n * n>>, Chance(p, X(d)))
        kept == FSum([d \in 1..(2 * n * n) |->
                        IF A(d) = B(d) THEN Draw(d) ELSE <<0, 1>>])
        bad  == FSum([d \in 1..(2 * n * n) |->
                        IF A(d) = B(d) THEN FMul(Draw(d), mismatch[A(d), B(d), X(d)])
                                       ELSE <<0, 1>>])
    IN  FDiv(bad, kept)

\* `include_eavesdropping and random.random() < p`
InterceptChance(eavesdropping, p) == IF eavesdropping THEN p ELSE <<0, 1>>

\* The probability that a sifted position differs between the keys; with
\* custom bits alice_bit is Alice's bit there, without them BB84 draws it.
PositionError(engine, custom, alice_bit, eavesdropping) ==
    IF engine = "bb84"
    THEN LET Of(bit) ==
                 SiftedError(<<0, 1>>, InterceptChance(eavesdropping, <<3, 10>>),
                             [a \in 0..1, b \in 0..1, x \in BOOLEAN |->
                                 BB84Mismatch(bit, a, b, x)])
         IN  IF custom THEN Of(alice_bit)
             ELSE FSum([j \in 1..2 |-> FMul(<<1, 2>>, Of(j - 1))])
    ELSE IF engine = "e91"
    THEN SiftedError(<<0, 1, 2>>, InterceptChance(eavesdropping, <<1, 4>>),
                     [a \in 0..2, b \in 0..2, x \in BOOLEAN |->
                         E91Mismatch(custom, alice_bit, a, b, x)])
    ELSE SiftedError(<<"rectilinear", "diagonal">>,
                     InterceptChance(eavesdropping, <<3, 10>>),
                     [a \in Bases92, b \in Bases92, x \in BOOLEAN |->
                         BBM92Mismatch(custom, alice_bit, a, b, x)])

Sifting == {"bb84", "e91", "bbm92"}

\* PositionError, worked out once for every position there can be.
PositionErrors ==
    [engine \in Sifting, custom \in BOOLEAN, alice_bit \in Digits, eavesdropping \in BOOLEAN |->
        PositionError(engine, custom, alice_bit, eavesdropping)]

\* The mean over all runs of the qber that the evaluator finds for the
\* keys of one call: 1.0 when a key is empty, else the mean over the
\* positions of the probability that the position differs.
ExpectedQber ==
    IF key_length <= 0 THEN <<1, 1>>
    ELSE FMul(<<1, key_length>>,
              FSum([j \in 1..key_length |->
                      PositionErrors[protocol, CustomMode,
                                     IF CustomMode THEN alice_key[j] ELSE 0,
                                     include_eavesdropping]]))

\* Many calls with the same arguments, and the mean of their qber.
ManyTrials ==
    /\ pc = "loop"
    /\ expected_qber' = ExpectedQber
    /\ pc' = "averaged"
    /\ UNCHANGED <<args, alice_key, bob_key, bit_index, i, rounds, round, error,
                   metrics, request, results, response>>

InitOdds == Init /\ protocol \in Sifting

NextOdds == GenerateKeyBegin \/ ManyTrials

\* The prologue of a sifting engine, then the mean qber of its runs.
SpecOdds == InitOdds /\ [][NextOdds]_vars

\* ------------------------------------------------------------------ claims
Returned == pc \in {"returned", "done"}

\* custom_bits is made of '0' and '1' only.
BinaryCustom == \A j \in 1..Len(custom_bits) : custom_bits[j] \in {"0", "1"}

\* The custom string as bits, character by character.
CustomAsBits == [j \in 1..Len(custom_bits) |-> IF custom_bits[j] = "1" THEN 1 ELSE 0]

\* Positions of the compared prefix where two keys differ.
Mismatches(a, b) ==
    {j \in 1..Len(a) : j <= Len(b) /\ a[j] # b[j]}

Shorter(a, b) == IF Len(a) <= Len(b) THEN Len(a) ELSE Len(b)

\* C1: whenever generate_key returns for a positive key_length (any engine,
\* either mode, eavesdropping on or off), alice_key and bob_key both have
\* exactly key_length elements.
C1_KeyLengths ==
    (Returned /\ key_length >= 1) =>
        /\ Len(alice_key) = key_length
        /\ Len(bob_key) = key_length

C1_Witness ==
    /\ pc = "returned" /\ protocol = "e91" /\ CustomMode /\ include_eavesdropping
    /\ key_length = 2 /\ Len(custom_bits) = 2 /\ Len(bob_key) = 2

\* C2: teleportation without eavesdropping, in either mode: every round's
\* bob_bit is the round's secret bit, the returned keys are equal, and the
\* evaluator reports agreement_rate 1.0 and qber 0.0.
C2_TeleportExact ==
    (/\ protocol = "teleportation" /\ ~include_eavesdropping
     /\ BinaryCustom /\ key_length >= 1) =>
        /\ (rounds > 0 => round.bob_bit = round.alice_bit)
        /\ (Returned => bob_key = alice_key)
        /\ (pc = "done" => metrics.agreement_rate = Float1 /\ metrics.qber = Float0)

\* C3: BB84 without eavesdropping, in either mode: a kept round appends to
\* bob_key the bit Alice prepared, so bob_key is alice_key position by
\* position (agreement_rate 1.0, qber 0.0).
C3_BB84Noiseless ==
    (/\ protocol = "bb84" /\ ~include_eavesdropping
     /\ BinaryCustom /\ key_length >= 1 /\ pc \in {"loop", "returned", "done"}) =>
        /\ (rounds > 0 /\ round.kept =>
              /\ round.bob_bit = round.alice_bit
              /\ bob_key[Len(bob_key)] = round.bob_bit)
        /\ Len(bob_key) <= Len(alice_key)
        /\ \A j \in 1..Len(bob_key) : bob_key[j] = alice_key[j]
        /\ (Returned => bob_key = alice_key)
        /\ (pc = "done" => metrics.agreement_rate = Float1 /\ metrics.qber = Float0)

C3_Witness ==
    /\ pc = "done" /\ protocol = "bb84" /\ ~include_eavesdropping
    /\ custom_bits = <<"1", "0">> /\ key_length = 2
    /\ bob_key = <<1, 0>> /\ round.alice_basis = 1 /\ round.kept
    /\ metrics.qber = Float0

\* C4: E91 and BBM92 in random mode without eavesdropping: a kept round
\* appends equal bits to both keys (in E91's basis 2 after the flip), so
\* the keys are identical.
C4_EntangledRandomAgree ==
    (/\ protocol \in {"e91", "bbm92"} /\ ~CustomMode /\ ~include_eavesdropping) =>
        /\ (rounds > 0 /\ round.kept => round.bob_bit = round.alice_bit)
        /\ bob_key = alice_key

C4_Witness ==
    /\ protocol = "e91" /\ ~CustomMode /\ ~include_eavesdropping
    /\ pc = "returned" /\ key_length = 2
    /\ round.kept /\ round.alice_basis = 2
    /\ alice_key = <<0, 1>> /\ bob_key = <<0, 1>>

\* C5: E91 and BBM92 in custom-bits mode without eavesdropping: the bit a
\* kept round appends to bob_key is alice_key at the cursor, and the
\* returned bob_key is alice_key.
C5_EntangledCustomAgree ==
    (/\ protocol \in {"e91", "bbm92"} /\ CustomMode /\ BinaryCustom
     /\ ~include_eavesdropping /\ key_length >= 1
     /\ pc \in {"loop", "returned", "done"}) =>
        /\ Len(bob_key) <= Len(alice_key)
        /\ \A j \in 1..Len(bob_key) : bob_key[j] = alice_key[j]
        /\ (Returned => bob_key = alice_key)

\* C6: in custom-bits mode with a valid string, in every engine and whatever
\* the rounds do, alice_key is the first key_length characters of
\* custom_bits as bits, from the first round to the return.
C6_AliceKeyVerbatim ==
    (/\ CustomMode /\ BinaryCustom /\ Len(custom_bits) >= key_length
     /\ key_length >= 0 /\ pc \in {"loop", "returned", "done"}) =>
        alice_key = SubSeq(CustomAsBits, 1, key_length)

C6_Witness ==
    /\ pc = "returned" /\ protocol = "bbm92" /\ include_eavesdropping
    /\ custom_bits = <<"0", "1">> /\ key_length = 1
    /\ alice_key = <<0>> /\ bob_key = <<1>>

\* C7: a custom_bits string holding a character other than '0' and '1'
\* makes generate_key fail before any round, with no keys returned.
C7_NonBinaryRejected ==
    (/\ CustomMode /\ ~BinaryCustom /\ key_length >= 1) =>
        /\ rounds = 0
        /\ ~Returned

\* C8: a non-empty string of '0'/'1' shorter than key_length makes
\* generate_key raise before any round; no key is built or returned.
C8_ShortRejected ==
    (/\ CustomMode /\ BinaryCustom /\ Len(custom_bits) < key_length /\ pc # "call") =>
        /\ pc = "raised"
        /\ error = "Custom bits must be at least key_length bits long"
        /\ rounds = 0
        /\ alice_key = <<>> /\ bob_key = <<>>

C8_Witness ==
    /\ pc = "raised" /\ protocol = "teleportation"
    /\ custom_bits = <<"1">> /\ key_length = 2 /\ rounds = 0

\* C9: with qber = mismatches / compared length as a fraction, is_secure
\* holds exactly when qber < 0.15, the level is High exactly when
\* qber < 0.05, Medium exactly when 0.05 <= qber < 0.15, Low otherwise;
\* 1 in 20 is Medium, 3 in 20 is Low and not secure.
C9_Thresholds ==
    (pc = "done" /\ alice_key # <<>> /\ bob_key # <<>>) =>
        LET n  == Shorter(alice_key, bob_key)
            mm == Cardinality(Mismatches(alice_key, bob_key))
        IN  /\ metrics.is_secure <=> 100 * mm < 15 * n
            /\ metrics.security_level = "High" <=> 100 * mm < 5 * n
            /\ metrics.security_level = "Medium" <=>
                  (5 * n <= 100 * mm /\ 100 * mm < 15 * n)
            /\ metrics.security_level = "Low" <=> 15 * n <= 100 * mm
            /\ (n = 20 /\ mm = 1 => metrics.security_level = "Medium")
            /\ (n = 20 /\ mm = 3 =>
                  metrics.security_level = "Low" /\ ~metrics.is_secure)

C9_Witness ==
    /\ pc = "done" /\ Len(alice_key) = 20 /\ Len(bob_key) = 20
    /\ Cardinality(Mismatches(alice_key, bob_key)) = 3
    /\ metrics.security_level = "Low" /\ ~metrics.is_secure

\* Carry into digit j of a + b, two numerals of one length.
CarryInto(a, b, j) ==
    \E p \in (j + 1)..Len(a) :
        /\ a[p] = 1 /\ b[p] = 1
        /\ \A y \in (j + 1)..(p - 1) : a[y] + b[y] = 1

\* a + b exactly, digit by digit; the first digit holds the integer part.
ExactSum(a, b) ==
    LET n  == Max(Len(a), Len(b))
        pa == Pad(a, n)
        pb == Pad(b, n)
        c(j) == IF CarryInto(pa, pb, j) THEN 1 ELSE 0
    IN  [j \in 1..n |->
           IF j = 1 THEN pa[1] + pb[1] + c(1) ELSE (pa[j] + pb[j] + c(j)) % 2]

\* 1 - 2^-(Mant + 1) and 1 + 2^-(Mant + 1)
JustBelowOne == <<0>> \o Ones(Mant + 1)

JustAboveOne == <<1>> \o Zeros(Mant) \o <<1>>

\* C10: for two non-empty keys of any lengths the evaluator compares the
\* first min(len, len) positions only, agreement_rate is the matches there
\* over that length, qber is 1 - agreement_rate (to the float's last
\* place, exactly when agreement_rate >= 1/2), both lie in [0, 1], and a
\* result is returned when the lengths differ.
C10_TruncatedCompare ==
    (pc = "done" /\ alice_key # <<>> /\ bob_key # <<>>) =>
        LET n   == Shorter(alice_key, bob_key)
            m   == n - Cardinality(Mismatches(alice_key, bob_key))
            sum == ExactSum(metrics.agreement_rate, metrics.qber)
        IN  /\ metrics.agreement_rate = FloatDiv(m, n)
            /\ ~FloatLess(sum, JustBelowOne) /\ ~FloatLess(JustAboveOne, sum)
            /\ (2 * m >= n => Strip(sum) = Float1)
            /\ ~FloatLess(Float1, metrics.agreement_rate)
            /\ ~FloatLess(Float1, metrics.qber)
            /\ metrics.security_level \in {"High", "Medium", "Low"}

C10_Witness ==
    /\ pc = "done" /\ alice_key = <<1, 0>> /\ bob_key = <<1>>
    /\ metrics.agreement_rate = Float1 /\ metrics.qber = Float0

\* C11: when either key is empty the evaluator divides nothing and returns
\* agreement_rate 0.0, qber 1.0, is_secure false and security_level 'Low'.
C11_EmptyKey ==
    (pc # "returned" /\ (alice_key = <<>> \/ bob_key = <<>>)) =>
        /\ pc = "done" /\ error = ""
        /\ metrics.agreement_rate = Float0
        /\ metrics.qber = Float1
        /\ ~metrics.is_secure
        /\ metrics.security_level = "Low"

C11_Witness ==
    /\ pc = "done" /\ alice_key = <<>> /\ bob_key = <<1, 0>>
    /\ metrics.qber = Float1 /\ metrics.security_level = "Low"

\* The string the request carries is checked: it is used and not empty.
Carried == request.use_custom_bits /\ request.custom_bits # <<>>

\* C12: in run_simulation and in compare_protocols alike, a carried string
\* that holds a character other than '0' and '1', or is shorter than
\* key_length, runs no round of any engine and gives an error, never keys
\* or metrics.
C12_CustomValidated ==
    (/\ request.endpoint \in {"run_simulation", "compare_protocols"}
     /\ Carried /\ key_length >= 1
     /\ \/ \E j \in 1..Len(request.custom_bits) : request.custom_bits[j] \notin {"0", "1"}
        \/ Len(request.custom_bits) < key_length) =>
        /\ rounds = 0
        /\ ~Returned
        /\ \A p \in DOMAIN results : results[p].kind # "metrics"
        /\ (pc = "responded" /\ request.endpoint = "run_simulation" =>
              response.code # 200 /\ response.error # "")

\* C13: run_simulation with a name that is none of 'bb84', 'e91', 'bbm92',
\* 'teleportation' answers 'Invalid protocol'; no engine is chosen, no
\* generate_key is entered and the evaluator is not called.
C13_InvalidProtocol ==
    (/\ request.endpoint = "run_simulation"
     /\ request.protocol_name \notin {"bb84", "e91", "bbm92", "teleportation"}) =>
        /\ pc \in {"request", "responded"}
        /\ protocol = "" /\ rounds = 0 /\ metrics = NoMetrics
        /\ alice_key = <<>> /\ bob_key = <<>>
        /\ (pc = "responded" =>
              /\ response.code = 400 /\ response.error = "Invalid protocol"
              /\ response.alice_key = <<>> /\ response.bob_key = <<>>)

C13_Witness ==
    /\ pc = "responded" /\ request.endpoint = "run_simulation"
    /\ request.protocol_name = "b92" /\ Carried
    /\ response.error = "Invalid protocol"

\* C14: with eavesdropping on, the mean qber of BB84, E91 and BBM92 lies
\* strictly between 0 and 0.5 and is at most the interception probability
\* (0.3, 0.25, 0.3) times 0.5.
C14_ExpectedQber ==
    (/\ pc = "averaged" /\ include_eavesdropping /\ key_length >= 1
     /\ BinaryCustom /\ protocol \in {"bb84", "e91", "bbm92"}) =>
        LET ceiling == IF protocol = "e91" THEN <<25, 200>> ELSE <<30, 200>>
        IN  /\ FLess(<<0, 1>>, expected_qber)
            /\ FLess(expected_qber, <<1, 2>>)
            /\ ~FLess(ceiling, expected_qber)

\* A step that is one loop body of generate_key.
LoopBody == pc = "loop" /\ pc' # "returned"

\* C15: BB84 with custom bits: at the start of every round bit_index is
\* len(bob_key) and a valid index of alice_key below key_length; a round
\* with equal bases reads alice_key[bit_index] and moves bit_index on by
\* one, a round with different bases leaves it (and alice_key) alone.
C15_Cursor ==
    /\ [](protocol = "bb84" /\ CustomMode =>
            /\ error # "list index out of range"
            /\ (pc = "loop" =>
                  /\ bit_index = Len(bob_key)
                  /\ (Len(bob_key) < key_length =>
                        /\ 0 <= bit_index /\ bit_index < key_length
                        /\ bit_index < Len(alice_key))))
    /\ [][(LoopBody /\ protocol = "bb84" /\ CustomMode) =>
            /\ pc' = "loop" /\ alice_key' = alice_key
            /\ IF round'.alice_basis = round'.bob_basis
               THEN /\ bit_index' = bit_index + 1
                    /\ round'.alice_bit = alice_key[bit_index + 1]
               ELSE bit_index' = bit_index]_vars

C15_Witness ==
    /\ pc = "loop" /\ protocol = "bb84" /\ custom_bits = <<"1", "0">>
    /\ key_length = 2 /\ rounds = 2 /\ bit_index = 1
    /\ round.alice_basis # round.bob_basis

\* C16: BB84, E91 and BBM92, either mode, eavesdropping on or off: a round
\* with different bases leaves both keys and the cursor as they are, a
\* round with equal bases appends one bit to bob_key (and with random bits
\* one to alice_key, with custom bits moves the cursor by one); no key
\* gets shorter or grows by more than one in a round.
C16_SiftingFrame ==
    [][(LoopBody /\ protocol \in {"bb84", "e91", "bbm92"}) =>
        /\ IF round'.alice_basis = round'.bob_basis
           THEN /\ bob_key' = Append(bob_key, round'.bob_bit)
                /\ IF CustomMode
                   THEN alice_key' = alice_key /\ bit_index' = bit_index + 1
                   ELSE /\ alice_key' = Append(alice_key, round'.alice_bit)
                        /\ bit_index' = bit_index
           ELSE /\ alice_key' = alice_key /\ bob_key' = bob_key
                /\ bit_index' = bit_index
        /\ Len(alice_key) <= Len(alice_key') /\ Len(alice_key') <= Len(alice_key) + 1
        /\ Len(bob_key) <= Len(bob_key') /\ Len(bob_key') <= Len(bob_key) + 1]_vars

C16_Witness ==
    /\ pc = "loop" /\ protocol = "bbm92" /\ ~CustomMode /\ include_eavesdropping
    /\ key_length = 2 /\ rounds = 2
    /\ round.alice_basis = 1 /\ round.bob_basis = 0
    /\ Len(alice_key) = 1 /\ Len(bob_key) = 1

\* C17: BB84 with eavesdropping on, either mode: the bit a kept round
\* appends to bob_key differs from Alice's bit at that position only if
\* Eve intercepted in that round in a basis other than Alice's; without
\* interception, or with Eve in Alice's basis, Bob gets Alice's bit.
C17_BB84Disturbance ==
    (/\ protocol = "bb84" /\ include_eavesdropping /\ BinaryCustom
     /\ rounds > 0 /\ round.kept /\ pc \in {"loop", "returned", "done"}) =>
        /\ round.alice_bit = alice_key[Len(bob_key)]
        /\ round.bob_bit = bob_key[Len(bob_key)]
        /\ (round.bob_bit # round.alice_bit =>
              round.intercepted /\ round.eve_basis # round.alice_basis)

C17_Witness ==
    /\ protocol = "bb84" /\ include_eavesdropping /\ CustomMode /\ BinaryCustom
    /\ pc = "returned" /\ round.kept /\ round.intercepted
    /\ round.alice_basis = 1 /\ round.eve_basis = 0
    /\ round.alice_bit = 1 /\ round.bob_bit = 0
    /\ alice_key = <<1>> /\ bob_key = <<0>>

\* C18: E91 and BBM92 with random bits and eavesdropping on: the bits a
\* kept round appends to the two keys differ only if Eve intercepted in
\* that round; a kept round without interception appends equal bits.
C18_EntangledDisturbance ==
    (/\ protocol \in {"e91", "bbm92"} /\ ~CustomMode /\ include_eavesdropping
     /\ rounds > 0 /\ round.kept) =>
        /\ Len(alice_key) = Len(bob_key)
        /\ round.alice_bit = alice_key[Len(alice_key)]
        /\ round.bob_bit = bob_key[Len(bob_key)]
        /\ (round.bob_bit # round.alice_bit => round.intercepted)

C18_Witness ==
    /\ protocol = "e91" /\ ~CustomMode /\ include_eavesdropping
    /\ pc = "returned" /\ round.kept /\ round.intercepted /\ round.alice_basis = 2
    /\ alice_key = <<0, 1>> /\ bob_key = <<0, 0>>

\* The key whose length the sifting loop tests.
SiftedKey == IF CustomMode THEN bob_key ELSE alice_key

\* C19: BB84, E91 and BBM92 with a positive key_length, either mode,
\* eavesdropping on or off: when equal bases keep being drawn the loop is
\* left and generate_key returns; the loop is left when the length of
\* bob_key (custom bits) or alice_key (random bits) is key_length, and no
\* round runs once it is.
C19_SiftingTerminates ==
    /\ (pc = "loop" /\ protocol \in {"bb84", "e91", "bbm92"} /\ key_length >= 1)
          ~> (pc = "returned")
    /\ [][(pc = "loop" /\ protocol \in {"bb84", "e91", "bbm92"} /\ key_length >= 1) =>
            /\ pc' \in {"loop", "returned"}
            /\ (pc' = "returned" => Len(SiftedKey) = key_length)
            /\ (pc' = "loop" => Len(SiftedKey) < key_length)]_vars

C19_Witness ==
    /\ pc = "returned" /\ protocol = "bbm92" /\ CustomMode /\ include_eavesdropping
    /\ key_length = 2 /\ rounds = 3 /\ Len(bob_key) = 2

\* C20: the teleportation engine runs key_length rounds and returns; no
\* round is dropped: round i appends one bit to bob_key, its secret bit is
\* the i-th custom bit (custom bits) or a drawn bit appended to alice_key
\* (random bits), with eavesdropping on or off and whatever is measured.
C20_TeleportRounds ==
    /\ []((/\ protocol = "teleportation" /\ key_length >= 0
            /\ pc \in {"loop", "returned", "done"}) =>
            /\ i = Len(bob_key) /\ i <= key_length
            /\ (rounds < MaxRounds => rounds = i)
            /\ (~CustomMode => Len(alice_key) = i)
            /\ (i > 0 =>
                  /\ round.kept
                  /\ round.alice_bit = alice_key[i] /\ round.bob_bit = bob_key[i])
            /\ (Returned => i = key_length))
    /\ [][(LoopBody /\ protocol = "teleportation") =>
            /\ pc' = "loop" /\ i' = i + 1
            /\ bob_key' = Append(bob_key, round'.bob_bit)
            /\ IF CustomMode
               THEN alice_key' = alice_key /\ round'.alice_bit = alice_key[i + 1]
               ELSE alice_key' = Append(alice_key, round'.alice_bit)]_vars
    /\ (pc = "loop" /\ protocol = "teleportation") ~> (pc = "returned")

C20_Witness ==
    /\ pc = "returned" /\ protocol = "teleportation" /\ include_eavesdropping
    /\ custom_bits = <<"1", "0">> /\ key_length = 2 /\ i = 2 /\ rounds = 2
    /\ round.intercepted /\ alice_key = <<1, 0>> /\ bob_key = <<0, 1>>

\* The protocols whose entry of results is filled in.
Reported == {p \in Protocols : results[p].kind # "none"}

\* C21: in compare_protocols the result holds one entry per registered
\* protocol when the response is sent; every entry is written once, for the
\* engine that has just run and for no other: an error entry with the
\* exception's message exactly when that engine raised, otherwise its own
\* name, its own metrics and the length of its own alice_key; and after
\* either kind of entry the next registered engine is called.
C21_CompareIndependent ==
    /\ [](request.endpoint = "compare_protocols" /\ pc = "responded"
            => Reported = Protocols)
    /\ [][results' # results =>
            /\ request.endpoint = "compare_protocols"
            /\ protocol \notin Reported
            /\ \A p \in Protocols \ {protocol} : results'[p] = results[p]
            /\ (results'[protocol].kind = "error") = (pc = "raised")
            /\ pc = "raised" =>
                  results'[protocol] = [NoEntry EXCEPT !.kind = "error", !.error = error]
            /\ pc # "raised" =>
                  /\ pc = "done"
                  /\ results'[protocol].kind = "metrics"
                  /\ results'[protocol].name = NameOf(protocol)
                  /\ results'[protocol].key_length = Len(alice_key)
                  /\ results'[protocol].is_secure =
                        calculate_security_metrics(alice_key, bob_key).is_secure
                  /\ results'[protocol].security_level =
                        calculate_security_metrics(alice_key, bob_key).security_level
            /\ IF IndexOf(protocol) < Len(ProtocolOrder)
               THEN pc' = "call" /\ protocol' = ProtocolOrder[IndexOf(protocol) + 1]
               ELSE pc' = "responded"]_vars

\* compare_protocols has answered after every engine raised its own
\* exception.
C21_Witness ==
    /\ request.endpoint = "compare_protocols" /\ pc = "responded"
    /\ \A p \in Protocols : results[p].kind = "error"

\* A response of run_simulation with the results of a run.
Successful == request.endpoint = "run_simulation" /\ response.code = 200

\* C22: in every successful response of run_simulation status is 'Secure
\* communication possible' exactly when is_secure is true, is_secure is
\* true exactly when security_level is 'High' or 'Medium', and otherwise
\* status is 'Security compromised - abort key exchange' and
\* security_level is 'Low'.
C22_VerdictAgrees ==
    Successful =>
        /\ (response.status = "Secure communication possible") = response.is_secure
        /\ response.is_secure = (response.security_level \in {"High", "Medium"})
        /\ ~response.is_secure =>
              /\ response.status = "Security compromised - abort key exchange"
              /\ response.security_level = "Low"

\* A successful response for keys that differ in 1 position of 20: secure,
\* 'Medium'.
C22_Witness ==
    /\ Successful /\ Len(response.alice_key) = 20
    /\ Cardinality(Mismatches(response.alice_key, response.bob_key)) = 1
    /\ response.is_secure /\ response.security_level = "Medium"

\* generate_key is called with the empty string for custom_bits and a
\* positive key_length.
EmptyCustom == custom_bits = <<>> /\ key_length >= 1

\* C23: for every engine, generate_key with custom_bits the empty string and
\* key_length >= 1 raises nothing, takes the random-generation branch
\* (alice_key starts empty and grows together with bob_key, the cursor of
\* the custom bits is never moved) and returns an alice_key of key_length
\* drawn bits.
C23_EmptyCustomBits ==
    /\ [](EmptyCustom =>
            /\ pc # "raised"
            /\ bit_index = 0
            /\ pc # "call" => Len(alice_key) = Len(bob_key)
            /\ pc \in {"returned", "done"} =>
                  /\ Len(alice_key) = key_length
                  /\ \A j \in 1..Len(alice_key) : alice_key[j] \in Bit)
    /\ [][EmptyCustom /\ pc = "call" => pc' = "loop" /\ alice_key' = <<>>]_vars
    /\ (EmptyCustom /\ pc = "call") ~> (pc = "returned" /\ Len(alice_key) = key_length)

\* A call with the empty string has returned a key in which both bit
\* values were drawn.
C23_Witness ==
    /\ custom_bits = <<>> /\ key_length = 2 /\ pc = "returned"
    /\ alice_key = <<0, 1>>

\* C24: for every engine and every key_length <= 0, in random mode and with
\* custom bits alike, generate_key runs no round and returns alice_key and
\* bob_key both empty, and the evaluator reports qber 1.0, not secure,
\* 'Low'.
C24_NonPositiveLength ==
    key_length <= 0 =>
        /\ rounds = 0
        /\ pc \in {"returned", "done"} => alice_key = <<>> /\ bob_key = <<>>
        /\ pc = "done" =>
              /\ metrics.qber = Float1
              /\ ~metrics.is_secure
              /\ metrics.security_level = "Low"
====
